---- MODULE Spec2Model ----
(***************************************************************************)
(* ColorSync: the room service (matchmaker) and the game rules service     *)
(* (game runtime), modelled from the Go sources.                           *)
(*                                                                         *)
(*   SpecMM    the matchmaker: /join, /rooms/, /room/{id}/ready and the    *)
(*             background announcement to the game service.                *)
(*   SpecJoin  the matchmaker's /join route and announcements alone.       *)
(*   SpecGame  one game of the runtime: /game/start, /game/ws, the reader  *)
(*             goroutines, the round scheduler and its timers.             *)
(*   SpecGameFair  SpecGame with the goroutines and timers scheduled fairly.*)
(*   SpecPlay  the rounds of one game with both players connected and     *)
(*             every CLICK frame counted.                                  *)
(*   SpecSession the session layer of one game up to the first round.      *)
(*   SpecPing  SpecSession with PING frames and their PONG replies.        *)
(*   SpecLocks the lock and unlock calls of the handlers and goroutines of *)
(*             both services, scheduled fairly.                            *)
(*   SpecStart the games table and the session layer of two games up to    *)
(*             the first round, with any service token and any user_id.    *)
(*   SpecRestart the games table when /game/start is posted again for a    *)
(*             room id that already has a game.                            *)
(***************************************************************************)
EXTENDS Integers, Sequences, FiniteSets, TLC

\* ------------------------------------------------------------------------
\* Bounds of the model
\* ------------------------------------------------------------------------
NumUsers == 4
MaxInFlight == 2
\* client requests the runtime serves: websocket sessions opened, plus CLICK
\* frames that get past handleClick's early returns, plus PING frames
MaxRequests == 3
\* CLICK frames read in a game whose every click is counted
MaxClicks == 3
\* handlers and goroutines running in the model of the lock discipline
MaxTasks == 2

\* ------------------------------------------------------------------------
\* Program constants
\* ------------------------------------------------------------------------
MaxRounds == 5

\* ------------------------------------------------------------------------
\* Generic helpers
\* ------------------------------------------------------------------------
Range(s) == {s[i] : i \in 1..Len(s)}

\* ========================================================================
\* Room service (matchmaker)
\* ========================================================================
VARIABLES
    rooms,          \* rooms map: room id -> [ID, Players, Status]
    waitingRoomID,  \* *string: id of the room waiting for a player, or Nil
    nextRoomID,     \* the next id uuid.New() hands out (ids are fresh)
    pending,        \* verified /join requests blocked on mu.Lock(): user -> count
    joinOrder,      \* users in the order their /join left the critical section with 200
    notifyCalls,    \* go notifyGameService(...) calls: [room_id, players, done]
    resp            \* the last HTTP response written by the room service

mmVars == <<rooms, waitingRoomID, nextRoomID, pending, joinOrder, notifyCalls, resp>>

VARIABLES
    games,      \* games map: room id -> Game
    createdBy,  \* per game: the X-Service-Token of the /game/start request that created it
    conns,      \* websocket connections in order of upgrade: [user, room, open, reader]
    inbox,      \* per connection: the frames its client has received
    timers,     \* connections with a pending time.AfterFunc(3s, conn.Close)
    sched,      \* per game, its runGame goroutine: [pc, round, result, winner, stats]
    clicks,     \* CLICK frames handled so far
    crashed     \* the process has panicked

gameVars == <<games, createdBy, conns, inbox, timers, sched, clicks, crashed>>

\* The mutexes of both services, for the model of their lock discipline. The
\* actions of the services above are whole critical sections and leave these
\* alone; the lock steps of each function are modelled on their own.
VARIABLES
    held,       \* per mutex: [w: the task holding it for writing, or 0; r: read holds per task]
    task        \* running handlers and goroutines: [prog, pc, waiting]

lockVars == <<held, task>>
vars == <<rooms, waitingRoomID, nextRoomID, pending, joinOrder, notifyCalls, resp,
          games, createdBy, conns, inbox, timers, sched, clicks, crashed, held, task>>

Nil == 0
NoClaims == "none"
EmptyID == ""
UserNames == <<"u1", "u2", "u3", "u4", "u5", "u6", "u7", "u8">>
Users == {UserNames[i] : i \in 1..NumUsers}

NoResp == [op |-> "none", method |-> "", user |-> "", room |-> Nil, code |-> 0]
MkResp(op, method, user, room, code) ==
    [op |-> op, method |-> method, user |-> user, room |-> room, code |-> code]

TotalPending == LET RECURSIVE Sum(_)
                    Sum(S) == IF S = {} THEN 0
                              ELSE LET u == CHOOSE x \in S : TRUE
                                   IN pending[u] + Sum(S \ {u})
                IN Sum(Users)

\* joinRoomHandler, "Check if user is already in the waiting room"
InWaitingRoom(u) ==
    /\ waitingRoomID # Nil
    /\ u \in Range(rooms[waitingRoomID].Players)

\* joinRoomHandler, "Check if user is already in any room"
InAnyRoom_Off(u) == FALSE
InAnyRoom_WaitingOnly(u) == InWaitingRoom(u)
InAnyRoom(u) ==
    \E r \in DOMAIN rooms : u \in Range(rooms[r].Players)

\* joinRoomHandler, "Double-check players are different"
SameAsFirst(room, u) ==
    Len(room.Players) > 0 /\ room.Players[1] = u

\* joinRoomHandler, join existing room: append the player, mark the room full
FillRoom_Prepend(room, u) ==
    [room EXCEPT !.Players = <<u>> \o @, !.Status = "full"]
FillRoom_StaysWaiting(room, u) ==
    [room EXCEPT !.Players = Append(@, u)]
FillRoom(room, u) ==
    [room EXCEPT !.Players = Append(@, u), !.Status = "full"]

\* joinRoomHandler, create new room
NewRoom_NoPlayer(id, u) == [ID |-> id, Players |-> <<>>, Status |-> "waiting"]
NewRoom(id, u) == [ID |-> id, Players |-> <<u>>, Status |-> "waiting"]

\* verifyUser: GET {userServiceURL}/users/{id}. The outcome of the call is a
\* status code, or "error" when http.Get fails (service down or unreachable).
UserServiceReplies == {"200", "404", "500", "error"}
VerifyUser_FailOpen(reply) == reply # "404"
VerifyUser(reply) == reply = "200"

MMInit ==
    /\ rooms = <<>>
    /\ waitingRoomID = Nil
    /\ nextRoomID = 1
    /\ pending = [u \in Users |-> 0]
    /\ joinOrder = <<>>
    /\ notifyCalls = <<>>
    /\ resp = NoResp

\* RequireAuth + joinRoomHandler up to mu.Lock(): the request of a caller whose
\* token carries claims.UserID = claim (NoClaims: no valid token), with body
\* user_id = body, while the user service answers exists for the lookup.
JoinRequest(claim, body, exists) ==
    /\ IF claim = NoClaims
         THEN /\ resp' = MkResp("join", "POST", "", Nil, 401)
              /\ UNCHANGED pending
       ELSE IF body = EmptyID
         THEN /\ resp' = MkResp("join", "POST", "", Nil, 400)
              /\ UNCHANGED pending
       ELSE IF body # claim
         THEN /\ resp' = MkResp("join", "POST", "", Nil, 403)
              /\ UNCHANGED pending
       ELSE IF ~exists
         THEN /\ resp' = MkResp("join", "POST", "", Nil, 404)
              /\ UNCHANGED pending
       ELSE /\ TotalPending < MaxInFlight
            /\ pending' = [pending EXCEPT ![body] = @ + 1]
            /\ UNCHANGED resp
    /\ UNCHANGED <<rooms, waitingRoomID, nextRoomID, joinOrder, notifyCalls>>
    /\ UNCHANGED <<gameVars, lockVars>>

\* joinRoomHandler, "Notify Game Service to start the game": the arguments of
\* go notifyGameService(room.ID, room.Players)
Announcement_FirstPlayerOnly(room) ==
    [room_id |-> room.ID, players |-> <<room.Players[1]>>, done |-> FALSE]
Announcement(room) ==
    [room_id |-> room.ID, players |-> room.Players, done |-> FALSE]

\* joinRoomHandler from mu.Lock() to the response: one critical section.
JoinLocked(u) ==
    /\ pending[u] > 0
    /\ pending' = [pending EXCEPT ![u] = @ - 1]
    /\ UNCHANGED <<gameVars, lockVars>>
    /\ IF InWaitingRoom(u) \/ InAnyRoom(u)
         THEN /\ resp' = MkResp("join", "POST", u, Nil, 409)
              /\ UNCHANGED <<rooms, waitingRoomID, nextRoomID, joinOrder, notifyCalls>>
       ELSE IF waitingRoomID # Nil
         THEN IF SameAsFirst(rooms[waitingRoomID], u)
                THEN /\ resp' = MkResp("join", "POST", u, Nil, 409)
                     /\ UNCHANGED <<rooms, waitingRoomID, nextRoomID, joinOrder, notifyCalls>>
                ELSE LET room == FillRoom(rooms[waitingRoomID], u)
                     IN /\ rooms' = [rooms EXCEPT ![waitingRoomID] = room]
                        /\ waitingRoomID' = Nil
                        /\ notifyCalls' = Append(notifyCalls, Announcement(room))
                        /\ joinOrder' = Append(joinOrder, u)
                        /\ resp' = MkResp("join", "POST", u, room.ID, 200)
                        /\ UNCHANGED nextRoomID
       ELSE LET room == NewRoom(nextRoomID, u)
            IN /\ rooms' = Append(rooms, room)
               /\ waitingRoomID' = room.ID
               /\ nextRoomID' = nextRoomID + 1
               /\ joinOrder' = Append(joinOrder, u)
               /\ resp' = MkResp("join", "POST", u, room.ID, 200)
               /\ UNCHANGED notifyCalls

\* notifyGameService: the POST to /game/start answers 200 (ok) or the call
\* fails (no answer, or another status); either way only a log line is written.
NotifyGameService(i, ok) ==
    /\ i \in 1..Len(notifyCalls)
    /\ ~notifyCalls[i].done
    /\ ok \in BOOLEAN
    /\ notifyCalls' = [notifyCalls EXCEPT ![i].done = TRUE]
    /\ UNCHANGED <<rooms, waitingRoomID, nextRoomID, pending, joinOrder, resp>>
    /\ UNCHANGED <<gameVars, lockVars>>

\* getRoomHandler, registered for every path under /rooms/: the room id is
\* whatever follows the prefix, so /rooms/{id}/leave looks up "{id}/leave".
GetRoomHandler(method, claim, id, suffix) ==
    /\ resp' = IF method # "GET"
                 THEN MkResp("rooms" \o suffix, method, "", id, 405)
               ELSE IF suffix = "" /\ id \in DOMAIN rooms
                 THEN MkResp("rooms" \o suffix, method, "", id, 200)
               ELSE MkResp("rooms" \o suffix, method, "", id, 404)
    /\ UNCHANGED <<rooms, waitingRoomID, nextRoomID, pending, joinOrder, notifyCalls>>
    /\ UNCHANGED <<gameVars, lockVars>>

\* GET /rooms/{id}
GetRoom(id) == GetRoomHandler("GET", NoClaims, id, "")

\* POST /rooms/{id}/leave with the caller's bearer token, as the clients and
\* the end-to-end test issue it.
LeaveRoom(u, id) == GetRoomHandler("POST", u, id, "/leave")

\* roomReadyHandler: GET /room/{id}/ready
RoomReady(id) ==
    /\ resp' = IF id \in DOMAIN rooms
                 THEN MkResp(IF Len(rooms[id].Players) = 2 THEN "ready" ELSE "notready",
                             "GET", "", id, 200)
               ELSE MkResp("ready", "GET", "", id, 404)
    /\ UNCHANGED <<rooms, waitingRoomID, nextRoomID, pending, joinOrder, notifyCalls>>
    /\ UNCHANGED <<gameVars, lockVars>>

\* room ids a request can name: the rooms created so far and one unknown id
RoomIDs == (DOMAIN rooms) \cup {nextRoomID}

\* The /join requests issued: every user's well-formed request, and one request
\* for each way of failing before the critical section.
JoinInputs ==
    {<<u, u, VerifyUser("200")>> : u \in Users}
      \cup {<<NoClaims, UserNames[1], TRUE>>, <<UserNames[1], EmptyID, TRUE>>,
            <<UserNames[1], UserNames[2], TRUE>>}
      \cup {<<UserNames[1], UserNames[1], VerifyUser(r)>> : r \in UserServiceReplies}

\* who posts /rooms/{id}/leave: the room's own players (any user for an unknown id)
LeaveCallers(id) == IF id \in DOMAIN rooms THEN Range(rooms[id].Players) ELSE {UserNames[1]}

MMNext ==
    \/ \E in \in JoinInputs : JoinRequest(in[1], in[2], in[3])
    \/ \E u \in Users : JoinLocked(u)
    \/ \E i \in 1..Len(notifyCalls), ok \in BOOLEAN : NotifyGameService(i, ok)
    \/ \E id \in RoomIDs : GetRoom(id)
    \/ \E id \in RoomIDs : \E u \in LeaveCallers(id) : LeaveRoom(u, id)
    \/ \E id \in RoomIDs : RoomReady(id)

\* SpecJoin: the /join route alone, with the background announcements
JoinNext ==
    \/ \E in \in JoinInputs : JoinRequest(in[1], in[2], in[3])
    \/ \E u \in Users : JoinLocked(u)
    \/ \E i \in 1..Len(notifyCalls), ok \in BOOLEAN : NotifyGameService(i, ok)

\* ========================================================================
\* Game rules service (runtime)
\* ========================================================================
RoomA == "r1"
RoomB == "r2"
Player1 == UserNames[1]
Player2 == UserNames[2]
Stranger == UserNames[3]
\* user_id values a websocket session is opened under
SessionUsers == {Player1, Player2, Stranger}
\* X-Service-Token of a /game/start request: the room service's token, a
\* token that does not verify, or no header
Tokens == {"valid", "invalid", "missing"}
Colors == {"red", "blue"}
Words == {"RED", "BLUE"}
Latencies == {100, 200}
\* time.Since(zero time).Milliseconds() is 9223372036854 and determineWinner's
\* initial lowestLatency is 9999999999; both exceed TLC's integers, so they are
\* scaled down keeping their order: every real latency sum < initial lowest
\* latency < latency measured from the zero time.
ZeroTimeLatency == 2000000000
InitialLowestLatency == 1000000000

Put(f, k, v) == [x \in (DOMAIN f) \cup {k} |-> IF x = k THEN v ELSE f[x]]
Frame(type, payload) == [type |-> type, payload |-> payload]

NoResult == [Round |-> 0, Word |-> "", Color |-> "", Winner |-> "", Latency |-> 0]

\* the runGame goroutine of a game, before `go runGame(game)`
NoSched == [pc |-> "idle", round |-> 0, result |-> NoResult, winner |-> "", stats |-> <<>>]

\* startGameHandler, "Create game session"
NewGame(rid, players) ==
    [RoomID |-> rid, Players |-> players, Connections |-> <<>>, disconnected |-> <<>>,
     Status |-> "waiting_for_players", CurrentRound |-> 0, MaxRounds |-> MaxRounds,
     Results |-> <<>>,
     currentWord |-> "", currentColor |-> "", roundStartTime |-> "zero",
     roundAnswered |-> FALSE, roundFinished |-> FALSE, roundWinner |-> "",
     roundLatency |-> 0, wrongAnswers |-> {}, wrongAnswersNil |-> TRUE]

GameInit ==
    /\ games = <<>>
    /\ createdBy = <<>>
    /\ conns = <<>>
    /\ inbox = <<>>
    /\ timers = {}
    /\ sched = <<>>
    /\ clicks = 0
    /\ crashed = FALSE

\* no handler or goroutine is running and every mutex is free
Locks == {"mu", "gamesMu", "game.mu"}
LockInit ==
    /\ held = [l \in Locks |-> [w |-> 0, r |-> <<>>]]
    /\ task = <<>>

Init == MMInit /\ GameInit /\ LockInit

\* conn.WriteJSON succeeds while the connection is up: the server has not
\* closed it and the client has not gone (a client's departure is taken at the
\* moment the reader's ReadJSON reports it)
Deliverable(c) == conns[c].open
Send(inb, c, frame) ==
    IF Deliverable(c) THEN [inb EXCEPT ![c] = Append(@, frame)] ELSE inb
ConnsOf(g) == {g.Connections[u] : u \in DOMAIN g.Connections}

\* broadcast: under the game lock, WriteJSON to every registered connection
Broadcast_StopsAfterFirst(g, frame) ==
    [c \in DOMAIN inbox |->
        IF c \in ConnsOf(g) /\ Deliverable(c) /\ (\A d \in ConnsOf(g) : c <= d)
          THEN Append(inbox[c], frame) ELSE inbox[c]]
Broadcast(g, frame) ==
    [c \in DOMAIN inbox |->
        IF c \in ConnsOf(g) /\ Deliverable(c) THEN Append(inbox[c], frame) ELSE inbox[c]]

\* startGameHandler: a well-formed request (room_id set, two players).
StartGameHandler(rid, players, token) ==
    /\ ~crashed
    /\ rid # "" /\ Len(players) = 2
    /\ games' = Put(games, rid, NewGame(rid, players))
    /\ createdBy' = Put(createdBy, rid, token)
    /\ sched' = Put(sched, rid, NoSched)
    /\ UNCHANGED <<conns, inbox, timers, clicks, crashed>>
    /\ UNCHANGED <<mmVars, lockVars>>

\* main: http.HandleFunc("/game/start", startGameHandler)
GameStartRoute(rid, players, token) == StartGameHandler(rid, players, token)

\* wsHandler, "Check if game already started or finished"
Joinable_Always(status) == TRUE
Joinable(status) == ~(status = "in_progress" \/ status = "finished")

\* wsHandler, "Start game only if BOTH players connected and game not started yet"
ShouldStart_AnyCount(g) == g.Status = "waiting_for_players"
ShouldStart(g) ==
    Cardinality(DOMAIN g.Connections) = 2 /\ g.Status = "waiting_for_players"

\* wsHandler, shouldStart branch: game.Status = "in_progress", under the lock
MarkInProgress_NoLatch(g) == g
MarkInProgress(g) == [g EXCEPT !.Status = "in_progress"]

\* wsHandler, "Close old connection if exists": conn.Close() on each of old
CloseConns_Keep(cs, old) == cs
CloseConns(cs, old) ==
    [i \in DOMAIN cs |-> IF i \in old THEN [cs[i] EXCEPT !.open = FALSE] ELSE cs[i]]

\* wsHandler for an existing game: upgrade, then the locked registration.
WsHandler(rid, user) ==
    /\ ~crashed
    /\ rid \in DOMAIN games
    /\ Len(conns) + clicks < MaxRequests
    /\ LET g == games[rid]
           c == Len(conns) + 1
       IN IF ~Joinable(g.Status)
            THEN /\ conns' = Append(conns, [user |-> user, room |-> rid, open |-> FALSE,
                                            reader |-> "none"])
                 /\ inbox' = Append(inbox, <<>>)
                 /\ UNCHANGED <<games, sched>>
          ELSE LET old == IF user \in DOMAIN g.Connections
                            THEN {g.Connections[user]} ELSE {}
                   g1 == [g EXCEPT !.Connections = Put(@, user, c),
                                   !.disconnected = Put(@, user, FALSE)]
               IN /\ conns' = Append(CloseConns(conns, old),
                        [user |-> user, room |-> rid, open |-> TRUE, reader |-> "read"])
                  /\ inbox' = Append(inbox, <<>>)
                  /\ IF ShouldStart(g1)
                       THEN /\ games' = [games EXCEPT ![rid] = MarkInProgress(g1)]
                            /\ sched' = [sched EXCEPT ![rid].pc = "init"]
                     ELSE /\ games' = [games EXCEPT ![rid] = g1]
                          /\ UNCHANGED sched
    /\ UNCHANGED <<createdBy, timers, clicks, crashed>>
    /\ UNCHANGED <<mmVars, lockVars>>

\* handleClick, under the game lock. Yields the game after the click, whether
\* the click panicked, and whether ROUND_FEEDBACK is written.
ClickCorrect(g, answer) == answer = g.currentColor
ClickLatency(g, lat) == IF g.roundStartTime = "zero" THEN ZeroTimeLatency ELSE lat

ClickIgnored_NoLockout(g, user) == g.roundFinished \/ g.roundAnswered
ClickIgnored_NoLatch(g, user) == user \in g.wrongAnswers
ClickIgnored(g, user) ==
    g.roundFinished \/ g.roundAnswered \/ user \in g.wrongAnswers

HandleClick(c, answer, lat) ==
    LET rid == conns[c].room
        user == conns[c].user
        g == games[rid]
    IN IF ClickIgnored(g, user)
         THEN UNCHANGED <<games, inbox, crashed>>
       ELSE IF ClickCorrect(g, answer)
         THEN /\ games' = [games EXCEPT ![rid] =
                             [g EXCEPT !.roundAnswered = TRUE,
                                       !.roundWinner = user,
                                       !.roundLatency = ClickLatency(g, lat)]]
              /\ UNCHANGED <<inbox, crashed>>
       ELSE IF g.wrongAnswersNil
         THEN \* assignment to entry in nil map
              /\ crashed' = TRUE
              /\ UNCHANGED <<games, inbox>>
       ELSE /\ games' = [games EXCEPT ![rid].wrongAnswers = @ \cup {user}]
            /\ inbox' = IF user \in DOMAIN g.Connections
                          THEN Send(inbox, g.Connections[user],
                                    Frame("ROUND_FEEDBACK",
                                          [message |-> "Wrong answer! Blocked for this round."]))
                        ELSE inbox
            /\ UNCHANGED crashed

\* handlePlayerMessages: ReadJSON returns a CLICK frame, handleClick runs.
ClickFrame(c, answer, lat) ==
    /\ ~crashed
    /\ c \in DOMAIN conns
    /\ conns[c].reader = "read"
    /\ Deliverable(c)
    /\ HandleClick(c, answer, lat)
    /\ UNCHANGED <<createdBy, conns, timers, sched>>
    /\ UNCHANGED <<mmVars, lockVars>>

\* A CLICK frame, counting against MaxRequests only the clicks that get past
\* handleClick's three early returns.
ReaderClick(c, answer, lat) ==
    /\ ClickFrame(c, answer, lat)
    /\ LET ignored == ClickIgnored(games[conns[c].room], conns[c].user)
       IN /\ ignored \/ Len(conns) + clicks < MaxRequests
          /\ clicks' = IF ignored THEN clicks ELSE clicks + 1

\* A CLICK frame, counting every frame read against MaxClicks.
ReaderClickCounted(c, answer, lat) ==
    /\ clicks < MaxClicks
    /\ ClickFrame(c, answer, lat)
    /\ clicks' = clicks + 1

\* handlePlayerMessages, case "PING": ReadJSON returns a PING frame and the
\* reader starts conn.WriteJSON(PONG) on its own connection. It holds no lock:
\* reader "pong" is the time this write is in progress.
ReaderPing(c) ==
    /\ ~crashed
    /\ c \in DOMAIN conns
    /\ conns[c].reader = "read"
    /\ Deliverable(c)
    /\ Len(conns) + clicks < MaxRequests
    /\ clicks' = clicks + 1
    /\ conns' = [conns EXCEPT ![c].reader = "pong"]
    /\ UNCHANGED <<games, createdBy, inbox, timers, sched, crashed>>
    /\ UNCHANGED <<mmVars, lockVars>>

\* the reader's WriteJSON(PONG) returns and the reader is back in ReadJSON
ReaderPong(c) ==
    /\ ~crashed
    /\ c \in DOMAIN conns
    /\ conns[c].reader = "pong"
    /\ inbox' = Send(inbox, c, Frame("PONG", <<>>))
    /\ conns' = [conns EXCEPT ![c].reader = "read"]
    /\ UNCHANGED <<games, createdBy, timers, sched, clicks, crashed>>
    /\ UNCHANGED <<mmVars, lockVars>>

\* handlePlayerMessages: ReadJSON fails, because the client closed or lost the
\* connection or because the server closed it; the deferred function marks
\* the player disconnected under the lock and closes the connection.
ReaderDefer(c) ==
    /\ ~crashed
    /\ c \in DOMAIN conns
    /\ conns[c].reader = "read"
    /\ games' = [games EXCEPT ![conns[c].room].disconnected = Put(@, conns[c].user, TRUE)]
    /\ conns' = [conns EXCEPT ![c].open = FALSE, ![c].reader = "check"]
    /\ UNCHANGED <<createdBy, inbox, timers, sched, clicks, crashed>>
    /\ UNCHANGED <<mmVars, lockVars>>

\* checkDisconnection: the first disconnected player the map iteration meets
FirstOther(players, p) ==
    IF \E i \in 1..Len(players) : players[i] # p
      THEN players[CHOOSE i \in 1..Len(players) :
                      /\ players[i] # p
                      /\ \A j \in 1..(i - 1) : players[j] = p]
    ELSE ""
DisconnectedPlayers(g) == {u \in DOMAIN g.disconnected : g.disconnected[u]}

\* checkDisconnection, "Only handle if game is in progress"
HandlesDisconnect_Always(g) == TRUE
HandlesDisconnect(g) == g.Status = "in_progress"

\* handlePlayerMessages' deferred checkDisconnection(game).
ReaderCheck(c) ==
    /\ ~crashed
    /\ c \in DOMAIN conns
    /\ conns[c].reader = "check"
    /\ conns' = [conns EXCEPT ![c].reader = "done"]
    /\ LET rid == conns[c].room
           g == games[rid]
       IN IF ~HandlesDisconnect(g) \/ DisconnectedPlayers(g) = {}
            THEN UNCHANGED <<games, inbox, timers>>
          ELSE \E playerID \in DisconnectedPlayers(g) :
                 LET winner == FirstOther(g.Players, playerID)
                 IN /\ games' = [games EXCEPT ![rid].Status = "finished"]
                    /\ IF winner \in DOMAIN g.Connections
                         THEN /\ inbox' = Send(inbox, g.Connections[winner],
                                               Frame("GAME_OVER",
                                                     [reason |-> "opponent_disconnected",
                                                      winner |-> winner,
                                                      results |-> g.Results]))
                              /\ timers' = timers \cup {g.Connections[winner]}
                       ELSE UNCHANGED <<inbox, timers>>
    /\ UNCHANGED <<createdBy, sched, clicks, crashed>>
    /\ UNCHANGED <<mmVars, lockVars>>

\* checkDisconnection's time.AfterFunc(3s) fires: conn.Close()
TimerClose(c) ==
    /\ ~crashed
    /\ c \in timers
    /\ timers' = timers \ {c}
    /\ conns' = [conns EXCEPT ![c].open = FALSE]
    /\ UNCHANGED <<games, createdBy, inbox, sched, clicks, crashed>>
    /\ UNCHANGED <<mmVars, lockVars>>

\* the frame that game rid's holder of the lock is about to write to c:
\* runGame's broadcast of GAME_START, or checkDisconnection's GAME_OVER
LockedWriteDue(rid, c) ==
    /\ rid \in DOMAIN games
    /\ Deliverable(c)
    /\ \/ /\ rid \in DOMAIN sched /\ sched[rid].pc = "game_start"
          /\ c \in ConnsOf(games[rid])
       \/ \E d \in DOMAIN conns :
             /\ conns[d].reader = "check" /\ conns[d].room = rid
             /\ HandlesDisconnect(games[rid])
             /\ \E playerID \in DisconnectedPlayers(games[rid]) :
                   LET winner == FirstOther(games[rid].Players, playerID)
                   IN winner \in DOMAIN games[rid].Connections
                      /\ games[rid].Connections[winner] = c

\* The reader's PONG write and a write under the game lock run on the same
\* connection at once. The two writers race on the connection's write state;
\* the frames may both arrive (the writer's own action) or the websocket
\* library's check for a concurrent writer panics, which ends the process.
ConcurrentWritePanic(c) ==
    /\ ~crashed
    /\ c \in DOMAIN conns
    /\ conns[c].reader = "pong"
    /\ LockedWriteDue(conns[c].room, c)
    /\ crashed' = TRUE
    /\ UNCHANGED <<games, createdBy, conns, inbox, timers, sched, clicks>>
    /\ UNCHANGED <<mmVars, lockVars>>

\* ------------------------------------------------------------------------
\* runGame: the round scheduler
\* ------------------------------------------------------------------------
SchedAt(rid, pc) == ~crashed /\ rid \in DOMAIN sched /\ sched[rid].pc = pc
SchedOnly == UNCHANGED <<createdBy, conns, timers, clicks, crashed>> /\ UNCHANGED <<mmVars, lockVars>>

\* runGame, "Reset game state for new game"
RunGameInit(rid) ==
    /\ SchedAt(rid, "init")
    /\ games' = [games EXCEPT ![rid].Results = <<>>, ![rid].CurrentRound = 0]
    /\ sched' = [sched EXCEPT ![rid].pc = "game_start"]
    /\ UNCHANGED inbox
    /\ SchedOnly

\* runGame, "Send game start message"
BroadcastGameStart(rid) ==
    /\ SchedAt(rid, "game_start")
    /\ inbox' = Broadcast(games[rid], Frame("GAME_START",
                    [room_id |-> games[rid].RoomID, max_rounds |-> games[rid].MaxRounds,
                     players |-> games[rid].Players]))
    /\ sched' = [sched EXCEPT ![rid].pc = "loop", ![rid].round = 1]
    /\ UNCHANGED games
    /\ SchedOnly

\* runGame, top of the round loop: "Check if anyone disconnected"
AnyDisconnected(g) == \E u \in DOMAIN g.disconnected : g.disconnected[u]

LoopCheck_StopsOneEarly(rid) ==
    /\ SchedAt(rid, "loop")
    /\ sched' = [sched EXCEPT ![rid].pc =
                    IF sched[rid].round >= games[rid].MaxRounds THEN "stats"
                    ELSE IF AnyDisconnected(games[rid]) THEN "returned"
                    ELSE "set_round"]
    /\ UNCHANGED <<games, inbox>>
    /\ SchedOnly
LoopCheck(rid) ==
    /\ SchedAt(rid, "loop")
    /\ sched' = [sched EXCEPT ![rid].pc =
                    IF sched[rid].round > games[rid].MaxRounds THEN "stats"
                    ELSE IF AnyDisconnected(games[rid]) THEN "returned"
                    ELSE "set_round"]
    /\ UNCHANGED <<games, inbox>>
    /\ SchedOnly

\* runGame: game.CurrentRound = round
SetRound(rid) ==
    /\ SchedAt(rid, "set_round")
    /\ games' = [games EXCEPT ![rid].CurrentRound = sched[rid].round]
    /\ sched' = [sched EXCEPT ![rid].pc = "round_reset"]
    /\ UNCHANGED inbox
    /\ SchedOnly

\* playRound, first critical section: draw the prompt, reset the round state
ResetRound_KeepsLockout(g, word, color) ==
    [g EXCEPT !.currentWord = word, !.currentColor = color,
              !.roundStartTime = "set",
              !.roundAnswered = FALSE, !.roundFinished = FALSE,
              !.roundWinner = "",
              !.wrongAnswersNil = FALSE]
ResetRound(g, word, color) ==
    [g EXCEPT !.currentWord = word, !.currentColor = color,
              !.roundStartTime = "set",
              !.roundAnswered = FALSE, !.roundFinished = FALSE,
              !.roundWinner = "",
              !.wrongAnswers = {}, !.wrongAnswersNil = FALSE]

RoundReset(rid, word, color) ==
    /\ SchedAt(rid, "round_reset")
    /\ games' = [games EXCEPT ![rid] = ResetRound(games[rid], word, color)]
    /\ sched' = [sched EXCEPT ![rid].pc = "round_start"]
    /\ UNCHANGED inbox
    /\ SchedOnly

\* playRound, "Broadcast round start": the local word and color
BroadcastRoundStart(rid) ==
    /\ SchedAt(rid, "round_start")
    /\ inbox' = Broadcast(games[rid], Frame("ROUND_START",
                    [round |-> sched[rid].round, word |-> games[rid].currentWord,
                     color |-> games[rid].currentColor]))
    /\ sched' = [sched EXCEPT ![rid].pc = "wait"]
    /\ UNCHANGED games
    /\ SchedOnly

\* playRound, case <-timeout
Deadline_NeverFires(rid) ==
    /\ SchedAt(rid, "wait")
    /\ FALSE
    /\ UNCHANGED vars
Deadline_AlwaysTimeout(rid) ==
    /\ SchedAt(rid, "wait")
    /\ games' = [games EXCEPT ![rid] =
                    [games[rid] EXCEPT !.roundWinner = "timeout", !.roundFinished = TRUE]]
    /\ sched' = [sched EXCEPT ![rid].pc = "round_end"]
    /\ UNCHANGED inbox
    /\ SchedOnly
Deadline(rid) ==
    /\ SchedAt(rid, "wait")
    /\ games' = [games EXCEPT ![rid] =
                    [games[rid] EXCEPT !.roundWinner = IF games[rid].roundAnswered THEN @ ELSE "timeout",
                               !.roundFinished = TRUE]]
    /\ sched' = [sched EXCEPT ![rid].pc = "round_end"]
    /\ UNCHANGED inbox
    /\ SchedOnly

\* playRound, case <-ticker.C that reads roundAnswered = true
TickAnswered(rid) ==
    /\ SchedAt(rid, "wait")
    /\ games[rid].roundAnswered
    /\ sched' = [sched EXCEPT ![rid].pc = "tick_lock"]
    /\ UNCHANGED <<games, inbox>>
    /\ SchedOnly

\* playRound, the ticker branch's second critical section
TickLock_ClearsAnswered(rid) ==
    /\ SchedAt(rid, "tick_lock")
    /\ games' = [games EXCEPT ![rid].roundFinished = TRUE, ![rid].roundAnswered = FALSE]
    /\ sched' = [sched EXCEPT ![rid].pc = "round_end"]
    /\ UNCHANGED inbox
    /\ SchedOnly
TickLock(rid) ==
    /\ SchedAt(rid, "tick_lock")
    /\ games' = [games EXCEPT ![rid].roundFinished = TRUE]
    /\ sched' = [sched EXCEPT ![rid].pc = "round_end"]
    /\ UNCHANGED inbox
    /\ SchedOnly

\* playRound, RoundEnd: "Store result"
RoundResultOf(g, roundNum) ==
    [Round |-> roundNum, Word |-> g.currentWord, Color |-> g.currentColor,
     Winner |-> g.roundWinner, Latency |-> g.roundLatency]

StoreResult(rid) ==
    /\ SchedAt(rid, "round_end")
    /\ LET result == RoundResultOf(games[rid], sched[rid].round)
       IN /\ games' = [games EXCEPT ![rid].Results = Append(@, result)]
          /\ sched' = [sched EXCEPT ![rid].pc = "round_result", ![rid].result = result]
    /\ UNCHANGED inbox
    /\ SchedOnly

\* playRound, "Broadcast round result"; then the loop's round++
BroadcastRoundResult(rid) ==
    /\ SchedAt(rid, "round_result")
    /\ inbox' = Broadcast(games[rid], Frame("ROUND_RESULT",
                    [round |-> sched[rid].round, winner |-> sched[rid].result.Winner,
                     latency_ms |-> sched[rid].result.Latency]))
    /\ sched' = [sched EXCEPT ![rid].pc = "loop", ![rid].round = @ + 1]
    /\ UNCHANGED games
    /\ SchedOnly

\* runGame, "Calculate final stats"
WonRounds(results, p) == {i \in 1..Len(results) : results[i].Winner = p}
RECURSIVE SumLatency(_, _)
SumLatency(results, I) ==
    IF I = {} THEN 0
    ELSE LET i == CHOOSE x \in I : TRUE
         IN results[i].Latency + SumLatency(results, I \ {i})
PlayerStats(results, p) ==
    LET wins == Cardinality(WonRounds(results, p))
        total == SumLatency(results, WonRounds(results, p))
    IN [wins |-> wins, total_latency |-> total,
        avg_latency |-> IF wins > 0 THEN total \div wins ELSE 0]
ComputeStats(players, results) ==
    [p \in Range(players) |-> PlayerStats(results, p)]

\* determineWinner: stats[result.Winner] is nil for a winner that is not a player
DetermineWinnerPanics(players, results) ==
    \E i \in 1..Len(results) :
        /\ results[i].Winner # "" /\ results[i].Winner # "timeout"
        /\ results[i].Winner \notin Range(players)

\* determineWinner, "Find winner by wins first, then by latency": one pass over
\* the stats map in iteration order `order`
RECURSIVE FindWinner_LatencyFirst(_, _, _, _)
FindWinner_LatencyFirst(stats, order, k, acc) ==
    IF k > Len(order) THEN acc
    ELSE LET ps == stats[order[k]]
             next == IF ps.wins > 0 /\ ps.total_latency < acc.lowestLatency
                       THEN [winner |-> order[k], maxWins |-> ps.wins,
                             lowestLatency |-> ps.total_latency]
                     ELSE acc
         IN FindWinner_LatencyFirst(stats, order, k + 1, next)
RECURSIVE FindWinner(_, _, _, _)
FindWinner(stats, order, k, acc) ==
    IF k > Len(order) THEN acc
    ELSE LET ps == stats[order[k]]
             next == IF ps.wins > acc.maxWins
                       THEN [winner |-> order[k], maxWins |-> ps.wins,
                             lowestLatency |-> ps.total_latency]
                     ELSE IF ps.wins = acc.maxWins /\ ps.wins > 0
                                /\ ps.total_latency < acc.lowestLatency
                       THEN [acc EXCEPT !.winner = order[k],
                                        !.lowestLatency = ps.total_latency]
                     ELSE acc
         IN FindWinner(stats, order, k + 1, next)

DetermineWinner(players, results, order) ==
    LET stats == ComputeStats(players, results)
        found == FindWinner(stats, order, 1,
                            [winner |-> "", maxWins |-> 0,
                             lowestLatency |-> InitialLowestLatency])
    IN IF found.winner = "" THEN "draw" ELSE found.winner

\* the orders in which a range over a map with key set S can visit the keys
Orders(S) == {o \in [1..Cardinality(S) -> S] : Range(o) = S}

FinalStats(rid) ==
    /\ SchedAt(rid, "stats")
    /\ IF DetermineWinnerPanics(games[rid].Players, games[rid].Results)
         THEN /\ crashed' = TRUE
              /\ UNCHANGED sched
       ELSE /\ \E order \in Orders(Range(games[rid].Players)) :
                  sched' = [sched EXCEPT ![rid].pc = "finish",
                               ![rid].stats = ComputeStats(games[rid].Players, games[rid].Results),
                               ![rid].winner = DetermineWinner(games[rid].Players, games[rid].Results, order)]
            /\ UNCHANGED crashed
    /\ UNCHANGED <<games, inbox, createdBy, conns, timers, clicks>>
    /\ UNCHANGED <<mmVars, lockVars>>

\* runGame, "Mark game as finished"
MarkFinished(rid) ==
    /\ SchedAt(rid, "finish")
    /\ games' = [games EXCEPT ![rid].Status = "finished"]
    /\ sched' = [sched EXCEPT ![rid].pc = "game_over"]
    /\ UNCHANGED inbox
    /\ SchedOnly

\* runGame, "Game over" broadcast
BroadcastGameOver(rid) ==
    /\ SchedAt(rid, "game_over")
    /\ inbox' = Broadcast(games[rid], Frame("GAME_OVER",
                    [reason |-> "game_completed", results |-> games[rid].Results,
                     winner |-> sched[rid].winner, stats |-> sched[rid].stats]))
    /\ sched' = [sched EXCEPT ![rid].pc = "cleanup"]
    /\ UNCHANGED games
    /\ SchedOnly

\* runGame, "Cleanup after delay": close every registered connection
Cleanup(rid) ==
    /\ SchedAt(rid, "cleanup")
    /\ conns' = [c \in DOMAIN conns |->
                    IF c \in ConnsOf(games[rid]) THEN [conns[c] EXCEPT !.open = FALSE] ELSE conns[c]]
    /\ games' = [games EXCEPT ![rid].Status = "completed"]
    /\ sched' = [sched EXCEPT ![rid].pc = "done"]
    /\ UNCHANGED <<createdBy, inbox, timers, clicks, crashed>>
    /\ UNCHANGED <<mmVars, lockVars>>

\* SpecGame: one game from the room service's announcement to its end. The
\* two players open sessions, click and disconnect at any moment. The prompt
\* drawn is the conflicting one (only answer = color enters the logic).
GamePrompts == {<<"RED", "blue">>}
GameNext ==
    \/ GameStartRoute(RoomA, <<Player1, Player2>>, "valid") /\ RoomA \notin DOMAIN games
    \/ \E user \in {Player1, Player2} : WsHandler(RoomA, user)
    \/ \E c \in DOMAIN conns, answer \in Colors : ReaderClick(c, answer, 100)
    \/ \E c \in DOMAIN conns : ReaderDefer(c)
    \/ \E c \in DOMAIN conns : ReaderCheck(c)
    \/ \E c \in timers : TimerClose(c)
    \/ RunGameInit(RoomA)
    \/ BroadcastGameStart(RoomA)
    \/ LoopCheck(RoomA)
    \/ SetRound(RoomA)
    \/ \E p \in GamePrompts : RoundReset(RoomA, p[1], p[2])
    \/ BroadcastRoundStart(RoomA)
    \/ Deadline(RoomA)
    \/ TickAnswered(RoomA)
    \/ TickLock(RoomA)
    \/ StoreResult(RoomA)
    \/ BroadcastRoundResult(RoomA)
    \/ FinalStats(RoomA)
    \/ MarkFinished(RoomA)
    \/ BroadcastGameOver(RoomA)
    \/ Cleanup(RoomA)

\* SpecStart: the games table and the session layer up to the first round:
\* /game/start requests with any X-Service-Token for two room ids (each at
\* most once), sessions under any user_id, disconnects, and the scheduler's
\* steps before the round loop.
StartNext ==
    \/ \E rid \in {RoomA, RoomB} \ DOMAIN games, token \in Tokens :
          GameStartRoute(rid, <<Player1, Player2>>, token)
    \/ \E rid \in {RoomA, RoomB}, user \in SessionUsers : WsHandler(rid, user)
    \/ \E c \in DOMAIN conns : ReaderDefer(c)
    \/ \E c \in DOMAIN conns : ReaderCheck(c)
    \/ \E c \in timers : TimerClose(c)
    \/ \E rid \in {RoomA, RoomB} : RunGameInit(rid)
    \/ \E rid \in {RoomA, RoomB} : BroadcastGameStart(rid)
    \/ \E rid \in {RoomA, RoomB} : LoopCheck(rid)

\* SpecPlay: the rounds of one game whose two players stay connected: each
\* opens one session, and every CLICK frame read is counted.
PlayNext ==
    \/ GameStartRoute(RoomA, <<Player1, Player2>>, "valid") /\ RoomA \notin DOMAIN games
    \/ \E user \in {Player1, Player2} :
          /\ RoomA \in DOMAIN games
          /\ user \notin DOMAIN games[RoomA].Connections
          /\ WsHandler(RoomA, user)
    \/ \E c \in DOMAIN conns, answer \in Colors, lat \in Latencies :
          ReaderClickCounted(c, answer, lat)
    \/ RunGameInit(RoomA)
    \/ BroadcastGameStart(RoomA)
    \/ LoopCheck(RoomA)
    \/ SetRound(RoomA)
    \/ \E p \in GamePrompts : RoundReset(RoomA, p[1], p[2])
    \/ BroadcastRoundStart(RoomA)
    \/ Deadline(RoomA)
    \/ TickAnswered(RoomA)
    \/ TickLock(RoomA)
    \/ StoreResult(RoomA)
    \/ BroadcastRoundResult(RoomA)
    \/ FinalStats(RoomA)
    \/ MarkFinished(RoomA)
    \/ BroadcastGameOver(RoomA)
    \/ Cleanup(RoomA)

\* SpecSession: the session layer of one game: its two players open, reopen
\* and drop sessions; the scheduler runs up to its first disconnect check.
SessionNext ==
    \/ GameStartRoute(RoomA, <<Player1, Player2>>, "valid") /\ RoomA \notin DOMAIN games
    \/ \E user \in {Player1, Player2} : WsHandler(RoomA, user)
    \/ \E c \in DOMAIN conns : ReaderDefer(c)
    \/ \E c \in DOMAIN conns : ReaderCheck(c)
    \/ \E c \in timers : TimerClose(c)
    \/ RunGameInit(RoomA)
    \/ BroadcastGameStart(RoomA)
    \/ LoopCheck(RoomA)

\* Sessions with heartbeats: the session steps, and PING frames from clients.
PingNext ==
    \/ SessionNext
    \/ \E c \in DOMAIN conns : ReaderPing(c)
    \/ \E c \in DOMAIN conns : ReaderPong(c)
    \/ \E c \in DOMAIN conns : ConcurrentWritePanic(c)

\* ------------------------------------------------------------------------
\* Lock discipline: the lock and unlock calls of each function, in the order
\* it makes them along each of its paths
\* ------------------------------------------------------------------------
Op(o, l) == [op |-> o, lock |-> l]
\* l.Lock() ... l.Unlock(), with nothing locked in between
Section(l) == <<Op("Lock", l), Op("Unlock", l)>>
\* l.RLock() ... l.RUnlock()
RSection(l) == <<Op("RLock", l), Op("RUnlock", l)>>
RECURSIVE Repeat(_, _)
Repeat(ops, n) == IF n = 0 THEN <<>> ELSE ops \o Repeat(ops, n - 1)

\* room service: mu.Lock(); defer mu.Unlock()
JoinRoomHandlerLocks(m) == Section(m)
GetRoomHandlerLocks(m) == RSection(m)
RoomReadyHandlerLocks(m) == RSection(m)
\* game service, the games table
GameStatusHandlerLocks(t) == RSection(t)
StartGameHandlerLocks(t) == Section(t)
\* wsHandler: the table lookup, then the registration under game.mu; every
\* branch unlocks before it returns or starts a goroutine
WsHandlerLocks(t, g) == RSection(t) \o Section(g)
\* broadcast: game.mu.Lock(); defer game.mu.Unlock(); WriteJSON per connection
BroadcastLocks(g) == Section(g)
\* handleClick: game.mu.Lock(); defer game.mu.Unlock(); the feedback frame is
\* written with conn.WriteJSON, not with broadcast
HandleClickLocks_ViaBroadcast(g) == <<Op("Lock", g)>> \o BroadcastLocks(g) \o <<Op("Unlock", g)>>
HandleClickLocks(g) == Section(g)
\* checkDisconnection: game.mu.Lock(); defer game.mu.Unlock(); GAME_OVER is
\* written with conn.WriteJSON
CheckDisconnectionLocks(g) == Section(g)
\* handlePlayerMessages: n CLICK frames, then the deferred function
HandlePlayerMessagesLocks(g, n) ==
    Repeat(HandleClickLocks(g), n) \o Section(g) \o CheckDisconnectionLocks(g)
\* playRound: reset, ROUND_START, the select loop leaving by the timeout
\* branch or by the ticker branch, RoundEnd, ROUND_RESULT
PlayRoundLocks(g, branch) ==
    Section(g) \o BroadcastLocks(g)
      \o (IF branch = "timeout" THEN Section(g) ELSE Section(g) \o Section(g))
      \o Section(g) \o BroadcastLocks(g)
\* runGame: reset, GAME_START, per round the disconnect check, CurrentRound
\* and playRound; then either the early return or finished, GAME_OVER, cleanup.
\* Every round makes the same calls; one round is listed.
RunGameLocks(g, branch, early) ==
    Section(g) \o BroadcastLocks(g)
      \o Section(g) \o Section(g) \o PlayRoundLocks(g, branch)
      \o (IF early THEN Section(g)
          ELSE Section(g) \o BroadcastLocks(g) \o Section(g))

Program(fn, ops) == [fn |-> fn, ops |-> ops]
LockPrograms ==
    {Program("joinRoomHandler", JoinRoomHandlerLocks("mu")),
     Program("getRoomHandler", GetRoomHandlerLocks("mu")),
     Program("roomReadyHandler", RoomReadyHandlerLocks("mu")),
     Program("gameStatusHandler", GameStatusHandlerLocks("gamesMu")),
     Program("startGameHandler", StartGameHandlerLocks("gamesMu")),
     Program("wsHandler", WsHandlerLocks("gamesMu", "game.mu"))}
    \cup {Program("handlePlayerMessages", HandlePlayerMessagesLocks("game.mu", n)) : n \in 0..1}
    \cup {Program("runGame", RunGameLocks("game.mu", b, e)) :
              b \in {"timeout", "ticker"}, e \in BOOLEAN}

TaskDone(t) == task[t].pc > Len(task[t].prog.ops)
NextOp(t) == task[t].prog.ops[task[t].pc]
Holds(t, l) == held[l].w = t \/ \E i \in 1..Len(held[l].r) : held[l].r[i] = t
\* task t has called Lock or RLock on l and has not returned from the call
WaitsFor(t, l) == ~TaskDone(t) /\ task[t].waiting /\ NextOp(t).lock = l
\* remove one read hold of t
DropRead(r, t) ==
    LET i == CHOOSE i \in 1..Len(r) : r[i] = t
    IN SubSeq(r, 1, i - 1) \o SubSeq(r, i + 1, Len(r))

\* a request arrives or a goroutine starts; a game has one runGame
Spawn(p) ==
    /\ Len(task) < MaxTasks
    /\ p.fn = "runGame" => \A t \in DOMAIN task : task[t].prog.fn # "runGame"
    /\ task' = Append(task, [prog |-> p, pc |-> 1, waiting |-> FALSE])
    /\ UNCHANGED held
    /\ UNCHANGED <<mmVars, gameVars>>

\* t calls Lock() or RLock()
LockCall(t) ==
    /\ t \in DOMAIN task
    /\ ~TaskDone(t) /\ ~task[t].waiting
    /\ NextOp(t).op \in {"Lock", "RLock"}
    /\ task' = [task EXCEPT ![t].waiting = TRUE]
    /\ UNCHANGED held
    /\ UNCHANGED <<mmVars, gameVars>>

\* sync.Mutex and sync.RWMutex: Lock needs no holder; RLock needs no writer
\* holding and no writer blocked in Lock
LockAvailable(t, o) ==
    IF o.op = "Lock"
      THEN held[o.lock].w = 0 /\ held[o.lock].r = <<>>
    ELSE /\ held[o.lock].w = 0
         /\ \A u \in DOMAIN task :
               (u # t /\ WaitsFor(u, o.lock)) => NextOp(u).op # "Lock"

\* t's call returns with the lock held
LockAcquire(t) ==
    /\ t \in DOMAIN task
    /\ ~TaskDone(t) /\ task[t].waiting
    /\ LockAvailable(t, NextOp(t))
    /\ held' = IF NextOp(t).op = "Lock"
                 THEN [held EXCEPT ![NextOp(t).lock].w = t]
               ELSE [held EXCEPT ![NextOp(t).lock].r = Append(@, t)]
    /\ task' = [task EXCEPT ![t].waiting = FALSE, ![t].pc = @ + 1]
    /\ UNCHANGED <<mmVars, gameVars>>

\* t calls Unlock() or RUnlock() on a lock it holds
LockRelease(t) ==
    /\ t \in DOMAIN task
    /\ ~TaskDone(t)
    /\ NextOp(t).op \in {"Unlock", "RUnlock"}
    /\ IF NextOp(t).op = "Unlock"
         THEN /\ held[NextOp(t).lock].w = t
              /\ held' = [held EXCEPT ![NextOp(t).lock].w = 0]
       ELSE /\ \E i \in 1..Len(held[NextOp(t).lock].r) : held[NextOp(t).lock].r[i] = t
            /\ held' = [held EXCEPT ![NextOp(t).lock].r = DropRead(@, t)]
    /\ task' = [task EXCEPT ![t].pc = @ + 1]
    /\ UNCHANGED <<mmVars, gameVars>>

TaskStep(t) == LockCall(t) \/ LockAcquire(t) \/ LockRelease(t)
LockNext ==
    \/ \E p \in LockPrograms : Spawn(p)
    \/ \E t \in DOMAIN task : LockCall(t)
    \/ \E t \in DOMAIN task : LockAcquire(t)
    \/ \E t \in DOMAIN task : LockRelease(t)
\* every running handler and goroutine keeps being scheduled
LockFairness == \A t \in 1..MaxTasks : WF_vars(TaskStep(t))

\* no goroutine holds the Game that the table lists for rid: its scheduler is
\* not running and every reader of its connections has returned
Quiescent(rid) ==
    /\ rid \in DOMAIN games
    /\ sched[rid].pc \in {"idle", "returned", "done"}
    /\ \A c \in DOMAIN conns : conns[c].room = rid => conns[c].reader \in {"done", "none"}

\* the players lists of the /game/start requests received for one room
RestartPlayers == {<<Player1, Player2>>, <<Stranger, Player1>>}

\* SpecRestart: the games table when /game/start is posted more than once for
\* one room id: the first request, and later ones arriving while no goroutine
\* holds the game already listed; sessions, disconnects and the scheduler's
\* steps before the round loop.
RestartNext ==
    \/ \E players \in RestartPlayers :
          /\ RoomA \notin DOMAIN games \/ Quiescent(RoomA)
          /\ GameStartRoute(RoomA, players, "valid")
    \/ \E user \in SessionUsers : WsHandler(RoomA, user)
    \/ \E c \in DOMAIN conns : ReaderDefer(c)
    \/ \E c \in DOMAIN conns : ReaderCheck(c)
    \/ \E c \in timers : TimerClose(c)
    \/ RunGameInit(RoomA)
    \/ BroadcastGameStart(RoomA)
    \/ LoopCheck(RoomA)

\* a step of the runGame goroutine of game rid
SchedulerStep(rid) ==
    \/ RunGameInit(rid)
    \/ BroadcastGameStart(rid)
    \/ LoopCheck(rid)
    \/ SetRound(rid)
    \/ \E p \in GamePrompts : RoundReset(rid, p[1], p[2])
    \/ BroadcastRoundStart(rid)
    \/ Deadline(rid)
    \/ TickAnswered(rid)
    \/ TickLock(rid)
    \/ StoreResult(rid)
    \/ BroadcastRoundResult(rid)
    \/ FinalStats(rid)
    \/ MarkFinished(rid)
    \/ BroadcastGameOver(rid)
    \/ Cleanup(rid)

\* The Go scheduler runs every runnable goroutine and the runtime fires every
\* timer: runGame keeps stepping (its sleeps, its ticker and its round
\* deadline all expire), a pending AfterFunc fires, and a reader whose
\* ReadJSON failed goes on to its checkDisconnection. Clients are not
\* obliged to send or to leave.
GameFairness ==
    /\ WF_vars(SchedulerStep(RoomA))
    /\ WF_vars(\E c \in timers : TimerClose(c))
    /\ WF_vars(\E c \in DOMAIN conns : ReaderCheck(c))

SpecMM == Init /\ [][MMNext]_vars
SpecJoin == Init /\ [][JoinNext]_vars
SpecGame == Init /\ [][GameNext]_vars
SpecGameFair == Init /\ [][GameNext]_vars /\ GameFairness
SpecStart == Init /\ [][StartNext]_vars
SpecPlay == Init /\ [][PlayNext]_vars
SpecSession == Init /\ [][SessionNext]_vars
SpecPing == Init /\ [][PingNext]_vars
SpecLocks == Init /\ [][LockNext]_vars /\ LockFairness
SpecRestart == Init /\ [][RestartNext]_vars

\* ========================================================================
\* Properties of the matchmaker
\* ========================================================================
WaitingRooms == {r \in DOMAIN rooms : rooms[r].Status = "waiting"}
RoomClosed(r) == r \notin DOMAIN rooms \/ rooms[r].Status = "closed"
\* u is a player of room r, which is not closed
MemberOf(u, r) == ~RoomClosed(r) /\ u \in Range(rooms[r].Players)
Queued(u) == \E r \in DOMAIN rooms : MemberOf(u, r)
\* the places (room, position) where u is listed
Seats(u) == {<<r, i>> \in (DOMAIN rooms) \X (1..2) :
                ~RoomClosed(r) /\ i <= Len(rooms[r].Players) /\ rooms[r].Players[i] = u}

\* C1: at most one room has status waiting, and the waiting slot is empty or
\* holds the id of that room, under every interleaving of concurrent joins.
C1_AtMostOneWaiting ==
    /\ Cardinality(WaitingRooms) <= 1
    /\ waitingRoomID = Nil \/ WaitingRooms = {waitingRoomID}
C1_Witness ==
    /\ waitingRoomID # Nil
    /\ \E r \in DOMAIN rooms : rooms[r].Status = "full"
    /\ TotalPending = MaxInFlight

\* C2: no player is listed in two distinct non-closed rooms, nor twice in one
\* room, also when the same player has two joins in flight at once.
C2_OneSeatPerPlayer == \A u \in Users : Cardinality(Seats(u)) <= 1
C2_Witness ==
    \E u \in Users : /\ pending[u] >= 1
                     /\ Queued(u)
                     /\ resp.op = "join" /\ resp.user = u /\ resp.code = 200

\* C3: a join by a player already listed in a non-closed room (waiting or
\* full) is answered 409 and leaves the room table and the waiting slot as
\* they were.
C3_AlreadyQueuedRejected ==
    [][\A u \in Users :
          (JoinLocked(u) /\ Queued(u)) =>
              /\ resp'.op = "join" /\ resp'.code = 409
              /\ rooms' = rooms
              /\ waitingRoomID' = waitingRoomID]_vars
C3_Witness ==
    /\ resp.op = "join" /\ resp.code = 409
    /\ Len(rooms) = 1
    /\ rooms[1].Players = <<resp.user>>
    /\ waitingRoomID = 1

\* C4: when a player of room R posts leave for R with their own credential,
\* the answer is 200, the player is in no room afterwards (so their next join
\* is not AlreadyQueued), R is closed if it became empty, and the waiting
\* slot is cleared if R was the waiting room.
C4_LeaveThenRejoin ==
    [][\A id \in DOMAIN rooms : \A u \in Range(rooms[id].Players) :
          LeaveRoom(u, id) =>
              /\ resp'.code = 200
              /\ ~(Queued(u))'
              /\ (rooms[id].Players = <<u>> => (RoomClosed(id))')
              /\ (waitingRoomID = id => waitingRoomID' = Nil)]_vars

\* C5: pairing is FIFO: the k-th successful join sits in the ceil(k/2)-th room
\* created, at position 1 for odd k and 2 for even k, and no room is created
\* while another still waits.
C5_FIFO ==
    /\ Len(rooms) = (Len(joinOrder) + 1) \div 2
    /\ \A k \in 1..Len(joinOrder) :
          LET r == (k + 1) \div 2
              i == 2 - (k % 2)
          IN /\ rooms[r].ID = r
             /\ Len(rooms[r].Players) >= i
             /\ rooms[r].Players[i] = joinOrder[k]
C5_Witness == Len(joinOrder) = 4

\* ========================================================================
\* Properties of the game runtime
\* ========================================================================
BroadcastTypes == {"GAME_START", "ROUND_START", "ROUND_RESULT", "GAME_OVER"}
IsBroadcastFrame(f) == f.type \in BroadcastTypes
\* the broadcast frames a client has received, in order of arrival
Observed(c) == SelectSeq(inbox[c], IsBroadcastFrame)
CountType(s, t) == Cardinality({i \in 1..Len(s) : s[i].type = t})
NotJoinableStatuses == {"in_progress", "finished", "completed"}
\* runGame has returned and no reader still owes its checkDisconnection
GameEnded(rid) ==
    /\ rid \in DOMAIN sched
    /\ sched[rid].pc \in {"returned", "done"}
    /\ \A c \in DOMAIN conns : conns[c].room = rid => conns[c].reader # "check"

\* C6: every entry of the games table was created by a /game/start request
\* that carried a valid X-Service-Token.
C6_OnlyServiceCreatesGames ==
    \A rid \in DOMAIN games : createdBy[rid] = "valid"

\* C7: a session opened on a game whose status is in_progress, finished or
\* completed is rejected: the new connection is closed and the game's
\* connections and disconnected maps stay as they were.
C7_NotJoinableRejected ==
    [][\A user \in {Player1, Player2} :
          (WsHandler(RoomA, user) /\ games[RoomA].Status \in NotJoinableStatuses) =>
              /\ ~conns'[Len(conns')].open
              /\ games'[RoomA].Connections = games[RoomA].Connections
              /\ games'[RoomA].disconnected = games[RoomA].disconnected]_vars

\* C8: a game goes from waiting_for_players to in_progress only in a step
\* after which both of the game's listed players have a registered connection.
C8_StartNeedsBothPlayers ==
    [][\A rid \in DOMAIN games :
          (games[rid].Status = "waiting_for_players"
             /\ games'[rid].Status = "in_progress") =>
              Range(games[rid].Players) \subseteq DOMAIN games'[rid].Connections]_vars

\* C9: no client receives GAME_START twice or GAME_OVER twice, and once the
\* scheduler of a started game has returned (no crash, no disconnect handling
\* outstanding) every client still connected to it has received its GAME_OVER.
C9_OneStartOneOver ==
    /\ \A c \in DOMAIN conns :
          /\ CountType(inbox[c], "GAME_START") <= 1
          /\ CountType(inbox[c], "GAME_OVER") <= 1
    /\ (~crashed /\ GameEnded(RoomA)) =>
          \A c \in ConnsOf(games[RoomA]) :
              (conns[c].open /\ conns[c].reader = "read") =>
                  CountType(inbox[c], "GAME_OVER") = 1

\* C10: in the broadcast frames a client receives, ROUND_START and
\* ROUND_RESULT alternate, and no ROUND_START or ROUND_RESULT comes after
\* GAME_OVER, also when the opponent disconnects inside a round or between
\* the scheduler's disconnect check and the next ROUND_START.
C10_FrameOrder ==
    \A c \in DOMAIN conns :
        LET s == Observed(c)
        IN \A i \in 2..Len(s) :
              /\ s[i].type = "ROUND_START" =>
                     s[i - 1].type \in {"GAME_START", "ROUND_RESULT"}
              /\ s[i].type = "ROUND_RESULT" => s[i - 1].type = "ROUND_START"

\* the connection of player p in game g is up and its reader is reading
Connected(g, p) ==
    /\ p \in DOMAIN g.Connections
    /\ conns[g.Connections[p]].open
    /\ conns[g.Connections[p]].reader = "read"

\* C11: when the reader of a player's registered connection has failed and its
\* checkDisconnection runs on a game in_progress, the status becomes finished
\* and the other player, if still connected, receives GAME_OVER with reason
\* opponent_disconnected, itself as winner and the results recorded so far.
C11_DisconnectEndsGame ==
    [][\A c \in DOMAIN conns :
          LET g == games[conns[c].room]
              u == conns[c].user
              o == FirstOther(g.Players, u)
          IN (/\ ReaderCheck(c)
              /\ g.Status = "in_progress"
              /\ u \in Range(g.Players)
              /\ u \in DOMAIN g.Connections /\ g.Connections[u] = c
              /\ Connected(g, o)) =>
                 /\ games'[conns[c].room].Status = "finished"
                 /\ inbox'[g.Connections[o]] =
                       Append(inbox[g.Connections[o]],
                              Frame("GAME_OVER", [reason |-> "opponent_disconnected",
                                                  winner |-> o,
                                                  results |-> g.Results]))]_vars

\* the round-arbitration fields of a game
Arbitration(g) == <<g.roundWinner, g.roundLatency, g.roundAnswered, g.wrongAnswers>>

\* C12: a correct CLICK evaluated while the round is neither answered nor
\* finished (by a player not locked out) sets the round's winner and latency;
\* a CLICK evaluated once round_answered or round_finished is set changes none
\* of round_winner, round_latency, round_answered, wrong_answers; and while
\* round_answered stays set no step of any task changes the winner or latency.
C12_FirstCorrectClickWins ==
    [][/\ \A c \in DOMAIN conns, answer \in Colors, lat \in Latencies :
             LET g == games[conns[c].room]
                 u == conns[c].user
             IN ClickFrame(c, answer, lat) =>
                   /\ (g.roundAnswered \/ g.roundFinished) =>
                          Arbitration(games'[conns[c].room]) = Arbitration(g)
                   /\ (~g.roundAnswered /\ ~g.roundFinished /\ u \notin g.wrongAnswers
                          /\ answer = g.currentColor) =>
                          /\ games'[conns[c].room].roundAnswered
                          /\ games'[conns[c].room].roundWinner = u
                          /\ games'[conns[c].room].roundLatency = ClickLatency(g, lat)
       /\ \A rid \in DOMAIN games :
             (games[rid].roundAnswered /\ games'[rid].roundAnswered) =>
                 /\ games'[rid].roundWinner = games[rid].roundWinner
                 /\ games'[rid].roundLatency = games[rid].roundLatency]_vars
\* round 1 is won by Player1 and a second CLICK has been read in it
C12_Witness ==
    /\ RoomA \in DOMAIN games
    /\ ~crashed
    /\ games[RoomA].CurrentRound = 1 /\ games[RoomA].Results = <<>>
    /\ games[RoomA].roundAnswered /\ games[RoomA].roundWinner = Player1
    /\ games[RoomA].wrongAnswers = {}
    /\ clicks = 2

\* C13: a player in wrong_answers of the current round is not the round's
\* winner, neither in the round state nor in the result recorded for it.
C13_LockoutHonored ==
    \A rid \in DOMAIN games :
        LET g == games[rid]
        IN \A u \in g.wrongAnswers :
              /\ g.roundWinner # u
              /\ (g.CurrentRound > 0 /\ Len(g.Results) = g.CurrentRound) =>
                     g.Results[g.CurrentRound].Winner # u
\* Player1 is locked out of round 1 and a further CLICK of Player1 has been
\* read in that round (two frames read, nobody else wrong, nobody correct)
C13_Witness ==
    /\ RoomA \in DOMAIN games
    /\ ~crashed
    /\ games[RoomA].CurrentRound = 1 /\ games[RoomA].Results = <<>>
    /\ games[RoomA].wrongAnswers = {Player1}
    /\ ~games[RoomA].roundAnswered
    /\ clicks = 2

\* C14: every recorded result names a player or "timeout"; once a round is
\* latched finished its winner is a player exactly when round_answered is set
\* and "timeout" exactly when it is not; a winner set by a correct click is a
\* player as long as round_answered stays set (the deadline does not
\* overwrite it); and the result recorded for the round is that winner.
C14_WinnerMatchesAnswered ==
    \A rid \in DOMAIN games :
        LET g == games[rid]
            P == Range(g.Players)
        IN /\ \A i \in 1..Len(g.Results) : g.Results[i].Winner \in P \cup {"timeout"}
           /\ g.roundAnswered => g.roundWinner \in P
           /\ g.roundFinished =>
                 /\ g.roundAnswered <=> g.roundWinner \in P
                 /\ ~g.roundAnswered <=> g.roundWinner = "timeout"
           /\ (g.CurrentRound > 0 /\ Len(g.Results) = g.CurrentRound) =>
                 /\ g.roundFinished
                 /\ g.Results[g.CurrentRound].Winner = g.roundWinner
\* round 1 was won by a click, round 2 ended by the deadline, and round 3 is
\* answered and latched
C14_Witness ==
    /\ RoomA \in DOMAIN games
    /\ Len(games[RoomA].Results) = 2
    /\ games[RoomA].Results[1].Winner = Player1
    /\ games[RoomA].Results[2].Winner = "timeout"
    /\ games[RoomA].CurrentRound = 3
    /\ games[RoomA].roundFinished /\ games[RoomA].roundAnswered
    /\ games[RoomA].roundWinner = Player2

\* C15: every round that ends by timeout is recorded, and broadcast, with
\* latency 0.
C15_TimeoutLatencyZero ==
    /\ \A rid \in DOMAIN games : \A i \in 1..Len(games[rid].Results) :
          games[rid].Results[i].Winner = "timeout" => games[rid].Results[i].Latency = 0
    /\ \A c \in DOMAIN conns : \A i \in 1..Len(inbox[c]) :
          (inbox[c][i].type = "ROUND_RESULT" /\ inbox[c][i].payload.winner = "timeout") =>
              inbox[c][i].payload.latency_ms = 0

\* C16: a CLICK with the wrong color, evaluated in an open round from a player
\* not locked out, puts the player in wrong_answers, delivers one frame of
\* type WRONG_ANSWER to that player's connection and nothing to any other, and
\* leaves round_answered, round_winner and round_finished unchanged.
C16_WrongAnswerFrame ==
    [][\A c \in DOMAIN conns, answer \in Colors, lat \in Latencies :
          LET g == games[conns[c].room]
              u == conns[c].user
              h == games'[conns[c].room]
          IN (/\ ClickFrame(c, answer, lat)
              /\ ~ClickIgnored(g, u) /\ ~g.wrongAnswersNil
              /\ answer # g.currentColor
              /\ u \in DOMAIN g.Connections /\ g.Connections[u] = c) =>
                 /\ u \in h.wrongAnswers
                 /\ Len(inbox'[c]) = Len(inbox[c]) + 1
                 /\ inbox'[c][Len(inbox'[c])].type = "WRONG_ANSWER"
                 /\ \A d \in DOMAIN conns \ {c} : inbox'[d] = inbox[d]
                 /\ h.roundAnswered = g.roundAnswered
                 /\ h.roundWinner = g.roundWinner
                 /\ h.roundFinished = g.roundFinished]_vars

\* the scheduler of game rid has broadcast the current round's ROUND_START and
\* has not yet latched the round
RoundStartBroadcast(rid) ==
    rid \in DOMAIN sched /\ sched[rid].pc \in {"wait", "tick_lock"}

\* C17: a CLICK evaluated when the ROUND_START of the round it would count
\* for has not been broadcast changes no game state, sends nothing and
\* raises no fault.
C17_EarlyClickIgnored ==
    [][\A c \in DOMAIN conns, answer \in Colors, lat \in Latencies :
          (ClickFrame(c, answer, lat) /\ ~RoundStartBroadcast(conns[c].room)) =>
              /\ games' = games
              /\ inbox' = inbox
              /\ crashed' = crashed]_vars

\* C18: no sequence of sessions, CLICK frames and scheduler steps brings the
\* process down.
C18_NeverCrashes == ~crashed

\* C19: every connection that is up is the one registered for its (room,
\* player), so no two connections of one player in one game are up at once;
\* and a session opened by a player who already has a registered connection,
\* while the game waits for players, closes that connection and leaves the
\* new one registered and up.
C19_SingleOwnership ==
    /\ [](\A c \in DOMAIN conns :
             conns[c].open =>
                 /\ conns[c].user \in DOMAIN games[conns[c].room].Connections
                 /\ games[conns[c].room].Connections[conns[c].user] = c)
    /\ [][\A rid \in DOMAIN games, user \in SessionUsers :
             (/\ WsHandler(rid, user)
              /\ games[rid].Status = "waiting_for_players"
              /\ user \in DOMAIN games[rid].Connections) =>
                 /\ ~conns'[games[rid].Connections[user]].open
                 /\ games'[rid].Connections[user] = Len(conns')
                 /\ conns'[Len(conns')].open]_vars
\* Player1 opened a second session while its first was still up
C19_Witness ==
    /\ Len(conns) >= 2
    /\ conns[1].user = Player1 /\ conns[2].user = Player1
    /\ conns[1].reader = "read" /\ ~conns[1].open
    /\ conns[2].open
    /\ games[RoomA].Connections[Player1] = 2
    /\ games[RoomA].Status = "waiting_for_players"

\* the scheduler of game rid has computed the game's winner
WinnerDecided(rid) ==
    rid \in DOMAIN sched /\ sched[rid].pc \in {"finish", "game_over", "cleanup", "done"}

\* C20: once the winner of a game is computed from its results: with equal
\* wins > 0 the player with the strictly lower total latency is the winner;
\* with equal wins and equal total latencies, or with no round won by either
\* player, the winner is "draw".
C20_TieBreak ==
    \A rid \in DOMAIN games :
        WinnerDecided(rid) =>
            LET g == games[rid]
                a == PlayerStats(g.Results, g.Players[1])
                b == PlayerStats(g.Results, g.Players[2])
                w == sched[rid].winner
            IN /\ (a.wins = b.wins /\ a.wins > 0 /\ a.total_latency < b.total_latency) =>
                      w = g.Players[1]
               /\ (a.wins = b.wins /\ a.wins > 0 /\ b.total_latency < a.total_latency) =>
                      w = g.Players[2]
               /\ (a.wins = b.wins /\ a.total_latency = b.total_latency) => w = "draw"
               /\ (a.wins = 0 /\ b.wins = 0) => w = "draw"

\* the scheduler of game rid is about to compute, or has computed, the final
\* stats and the winner from the game's results
ScoringRuns(rid) ==
    rid \in DOMAIN sched /\ sched[rid].pc \in {"stats", "finish", "game_over", "cleanup", "done"}

\* C21: the scoring of a game's results does not depend on the order in which
\* the players are visited: any two runs over the same results give the same
\* wins, total_latency and avg_latency per player and the same game winner.
C21_ScoringDeterministic ==
    \A rid \in DOMAIN games :
        (ScoringRuns(rid) /\ ~DetermineWinnerPanics(games[rid].Players, games[rid].Results)) =>
            LET g == games[rid]
                O == Orders(Range(g.Players))
            IN \A o1 \in O, o2 \in O :
                  /\ \A p \in Range(g.Players) :
                        ComputeStats(g.Players, g.Results)[p] = PlayerStats(g.Results, p)
                  /\ DetermineWinner(g.Players, g.Results, o1)
                        = DetermineWinner(g.Players, g.Results, o2)

\* the GAME_OVER frames with reason game_completed that connection c received
CompletedFrames(c) ==
    {i \in 1..Len(inbox[c]) :
        inbox[c][i].type = "GAME_OVER" /\ inbox[c][i].payload.reason = "game_completed"}
\* the sum of latency_ms over the first n results that name p as winner
RECURSIVE LatencyOfWins(_, _, _)
LatencyOfWins(results, p, n) ==
    IF n = 0 THEN 0
    ELSE LatencyOfWins(results, p, n - 1)
            + (IF results[n].Winner = p THEN results[n].Latency ELSE 0)

\* C22: in every GAME_OVER frame of a completed game, each player's wins is
\* the number of results naming that player as winner, total_latency is the
\* sum of those results' latencies, avg_latency is total_latency / wins (0 for
\* no wins), and a player with strictly more wins than the opponent is the
\* winner, whatever the latencies.
C22_StatsMatchResults ==
    \A c \in DOMAIN conns : \A i \in CompletedFrames(c) :
        LET m == inbox[c][i].payload
            players == games[conns[c].room].Players
        IN /\ DOMAIN m.stats = Range(players)
           /\ \A p \in Range(players) :
                 LET won == {k \in 1..Len(m.results) : m.results[k].Winner = p}
                     st == m.stats[p]
                 IN /\ st.wins = Cardinality(won)
                    /\ st.total_latency = LatencyOfWins(m.results, p, Len(m.results))
                    /\ st.avg_latency = IF st.wins = 0 THEN 0
                                        ELSE st.total_latency \div st.wins
                    /\ (\A q \in Range(players) \ {p} : st.wins > m.stats[q].wins) =>
                           m.winner = p
\* GAME_OVER of a completed game in which Player1 won two rounds slowly and
\* Player2 one round fast
C22_Witness ==
    \E c \in DOMAIN conns : \E i \in CompletedFrames(c) :
        LET m == inbox[c][i].payload
        IN /\ m.stats[Player1].wins = 2 /\ m.stats[Player1].total_latency = 400
           /\ m.stats[Player2].wins = 1 /\ m.stats[Player2].total_latency = 100
           /\ m.winner = Player1

\* the scheduler of game rid has broadcast the GAME_OVER of the completed game
GameOverBroadcast(rid) ==
    rid \in DOMAIN sched /\ sched[rid].pc \in {"cleanup", "done"}

C24_OneResultPerRound ==
    \A rid \in DOMAIN games :
        LET g == games[rid]
        IN /\ g.MaxRounds = 5
           /\ Len(g.Results) <= g.CurrentRound
           /\ g.CurrentRound <= g.MaxRounds
           /\ \A i \in 1..Len(g.Results) : g.Results[i].Round = i
           /\ ScoringRuns(rid) => Len(g.Results) = 5
\* a completed game with five results, the third of them won by a click
C24_Witness ==
    /\ RoomA \in DOMAIN games
    /\ sched[RoomA].pc = "done"
    /\ Len(games[RoomA].Results) = 5
    /\ games[RoomA].Results[3].Winner = Player1
    /\ games[RoomA].Results[5].Round = 5

\* the round the entries of wrong_answers belong to: the round being played
\* from its reset to its result, the last round played otherwise
LockoutRound(rid) ==
    IF sched[rid].pc \in {"round_start", "wait", "tick_lock", "round_end"}
      THEN Len(games[rid].Results) + 1
    ELSE Len(games[rid].Results)

\* C25: the lockout lasts one round: the reset that opens a round leaves
\* nobody locked out, so that a click of either player is evaluated again;
\* and whoever is locked out was told so in the round the lockout belongs to,
\* after the ROUND_RESULT of every earlier round.
C25_LockoutOneRound ==
    /\ [][\A rid \in DOMAIN games, p \in GamePrompts :
             RoundReset(rid, p[1], p[2]) =>
                 /\ games'[rid].wrongAnswers = {}
                 /\ \A u \in Range(games[rid].Players) : ~ClickIgnored(games'[rid], u)]_vars
    /\ [](\A rid \in DOMAIN games : \A u \in games[rid].wrongAnswers :
             /\ u \in DOMAIN games[rid].Connections
             /\ LET s == inbox[games[rid].Connections[u]]
                IN \E i \in 1..Len(s) :
                      /\ s[i].type = "ROUND_FEEDBACK"
                      /\ \A j \in (i + 1)..Len(s) :
                            s[j].type = "ROUND_RESULT" =>
                                s[j].payload.round >= LockoutRound(rid))
\* Player1 answered wrong in round 1, which timed out, and won round 2
C25_Witness ==
    /\ RoomA \in DOMAIN games
    /\ Len(games[RoomA].Results) = 2
    /\ games[RoomA].Results[1].Winner = "timeout"
    /\ games[RoomA].Results[2].Winner = Player1
    /\ Player1 \in DOMAIN games[RoomA].Connections
    /\ LET s == inbox[games[RoomA].Connections[Player1]]
       IN \E i \in 1..Len(s), j \in 1..Len(s) :
             /\ i < j
             /\ s[i].type = "ROUND_FEEDBACK"
             /\ s[j].type = "ROUND_RESULT" /\ s[j].payload.round = 1

\* ========================================================================
\* Properties of the matchmaker: failures and the announcement
\* ========================================================================
\* C26: a join whose body user_id differs from the credential's user_id is
\* answered 403, and a join whose user lookup answers anything but 200, or
\* fails, is answered 404; neither creates a room, adds a player to a room,
\* changes the waiting slot, announces a game or reaches the critical section.
C26_FailedJoinNoEffect ==
    [][/\ \A in \in JoinInputs :
             (/\ in[1] # NoClaims /\ in[2] # EmptyID /\ in[2] # in[1]
              /\ JoinRequest(in[1], in[2], in[3])) =>
                 /\ resp'.code = 403
                 /\ <<rooms, waitingRoomID, notifyCalls, pending>>'
                       = <<rooms, waitingRoomID, notifyCalls, pending>>
       /\ \A r \in UserServiceReplies \ {"200"} :
             JoinRequest(UserNames[1], UserNames[1], VerifyUser(r)) =>
                 /\ resp'.code = 404
                 /\ <<rooms, waitingRoomID, notifyCalls, pending>>'
                       = <<rooms, waitingRoomID, notifyCalls, pending>>]_vars
\* a join was answered 404 while one room was full, another waited and a
\* verified join was in flight
C26_Witness ==
    /\ resp.op = "join" /\ resp.code = 404
    /\ Len(rooms) = 2
    /\ waitingRoomID = 2
    /\ TotalPending >= 1

\* the announcements issued for room r
AnnouncementsOf(r) == {i \in 1..Len(notifyCalls) : notifyCalls[i].room_id = r}

\* C27: every full room has exactly one announcement, issued by the join that
\* filled it and carrying the room's id and its two players in join order;
\* no other room has one; and an announcement that ends, in failure or in
\* success, leaves the rooms and the waiting slot as they were, so the room
\* stays full with both players.
C27_OneAnnouncementPerFullRoom ==
    /\ [](\A r \in DOMAIN rooms :
             /\ rooms[r].Status = "full" <=> AnnouncementsOf(r) # {}
             /\ Cardinality(AnnouncementsOf(r)) <= 1
             /\ \A i \in AnnouncementsOf(r) :
                   /\ notifyCalls[i].players = rooms[r].Players
                   /\ notifyCalls[i].players = <<joinOrder[2 * r - 1], joinOrder[2 * r]>>)
    /\ [](\A i \in 1..Len(notifyCalls) : notifyCalls[i].room_id \in DOMAIN rooms)
    /\ [][\A u \in Users :
             (JoinLocked(u) /\ Len(notifyCalls') > Len(notifyCalls)) =>
                 /\ Len(notifyCalls') = Len(notifyCalls) + 1
                 /\ waitingRoomID # Nil /\ waitingRoomID' = Nil
                 /\ notifyCalls'[Len(notifyCalls')].room_id = waitingRoomID
                 /\ rooms'[waitingRoomID].Players = Append(rooms[waitingRoomID].Players, u)]_vars
    /\ [][\A i \in 1..Len(notifyCalls) :
             NotifyGameService(i, FALSE) =>
                 /\ rooms' = rooms
                 /\ waitingRoomID' = waitingRoomID
                 /\ rooms'[notifyCalls[i].room_id].Status = "full"
                 /\ rooms'[notifyCalls[i].room_id].Players = notifyCalls[i].players]_vars
\* two rooms are full, the announcement of the first has ended and that of
\* the second is still under way
C27_Witness ==
    /\ Len(notifyCalls) = 2
    /\ notifyCalls[1].done /\ ~notifyCalls[2].done
    /\ rooms[1].Status = "full" /\ rooms[2].Status = "full"
    /\ waitingRoomID = Nil

\* ========================================================================
\* Properties of the games table
\* ========================================================================
RecordStatuses == {"waiting_for_players", "in_progress", "finished"}

\* C28: once the games table lists a game for a room id, the players listed
\* for that room id never change, and a /game/start for that room id leaves a
\* game that is waiting_for_players, in_progress or finished as it is.
C28_GameRecordKept ==
    [][\A rid \in DOMAIN games :
          /\ rid \in DOMAIN games'
          /\ games'[rid].Players = games[rid].Players
          /\ \A players \in RestartPlayers :
                (GameStartRoute(rid, players, "valid")
                   /\ games[rid].Status \in RecordStatuses) =>
                      games'[rid] = games[rid]]_vars

\* C29: every room has 1 or 2 players, status waiting exactly with 1 player
\* and full exactly with 2; a non-empty waiting slot names an existing room
\* with one player and status waiting; and /room/{id}/ready answers ready
\* exactly for a full room.
C29_RoomShape ==
    /\ \A r \in DOMAIN rooms :
          /\ Len(rooms[r].Players) \in {1, 2}
          /\ rooms[r].Status = "waiting" <=> Len(rooms[r].Players) = 1
          /\ rooms[r].Status = "full" <=> Len(rooms[r].Players) = 2
    /\ waitingRoomID # Nil =>
          /\ waitingRoomID \in DOMAIN rooms
          /\ Len(rooms[waitingRoomID].Players) = 1
          /\ rooms[waitingRoomID].Status = "waiting"
    /\ (resp.op \in {"ready", "notready"} /\ resp.code = 200) =>
          (resp.op = "ready" <=> rooms[resp.room].Status = "full")
\* /room/1/ready has answered ready while room 2 waits with one player
C29_Witness ==
    /\ resp.op = "ready" /\ resp.code = 200 /\ resp.room = 1
    /\ Len(rooms) = 2
    /\ waitingRoomID = 2
    /\ rooms[1].Status = "full" /\ rooms[2].Status = "waiting"

\* the step spawns the round scheduler of game rid (go runGame)
SpawnsScheduler(rid) ==
    /\ rid \in DOMAIN sched /\ rid \in DOMAIN sched'
    /\ sched'[rid].pc = "init"
    /\ sched[rid].pc # "init"

\* C30: whatever the order of the sessions opened for a game, by both players
\* and repeatedly by one, its round scheduler is spawned at most once: only
\* by the step that takes the game from waiting_for_players to in_progress,
\* which happens at most once; and exactly once for a game that becomes
\* in_progress: that step always spawns it.
C30_SchedulerSpawnedOnce ==
    /\ [][\A rid \in DOMAIN games :
             /\ SpawnsScheduler(rid) =>
                   /\ sched[rid].pc = "idle"
                   /\ games[rid].Status = "waiting_for_players"
                   /\ games'[rid].Status = "in_progress"
             /\ (games[rid].Status # "in_progress" /\ games'[rid].Status = "in_progress") =>
                   SpawnsScheduler(rid)
             /\ sched[rid].pc # "idle" => sched'[rid].pc # "idle"
             /\ games[rid].Status # "waiting_for_players" =>
                   games'[rid].Status # "waiting_for_players"]_vars
    /\ [](\A rid \in DOMAIN games :
             games[rid].Status = "waiting_for_players" <=> sched[rid].pc = "idle")
\* Player1 opened two sessions, then Player2 one, and the game started
C30_Witness ==
    /\ Len(conns) >= 3
    /\ conns[1].user = Player1 /\ conns[2].user = Player1 /\ conns[3].user = Player2
    /\ games[RoomA].Status = "in_progress"
    /\ sched[RoomA].pc \notin {"idle", "init"}

\* ========================================================================
\* Properties of the runtime: status, rounds and disconnects
\* ========================================================================
\* the round state of a game
RoundState(g) ==
    <<g.currentWord, g.currentColor, g.roundAnswered, g.roundFinished,
      g.roundWinner, g.roundLatency, g.wrongAnswers>>

\* C31: a CLICK evaluated while the game's status is not in_progress
\* (waiting_for_players, finished or completed) changes no round state.
C31_RoundStateOnlyInProgress ==
    [][\A c \in DOMAIN conns, answer \in Colors, lat \in Latencies :
          (ClickFrame(c, answer, lat) /\ games[conns[c].room].Status # "in_progress") =>
              RoundState(games'[conns[c].room]) = RoundState(games[conns[c].room])]_vars

\* the scheduler of game rid found a player flagged disconnected at the top
\* of a round and returned, and no reader still owes its checkDisconnection
StoppedOnDisconnect(rid) ==
    /\ rid \in DOMAIN sched
    /\ sched[rid].pc = "returned"
    /\ \A c \in DOMAIN conns : conns[c].room = rid => conns[c].reader # "check"

\* C32: when the scheduler has stopped at the top of a round because a player
\* is flagged disconnected, the game is over for its clients too: the status
\* is finished and every player whose connection is still up has received a
\* GAME_OVER frame with reason opponent_disconnected.
C32_StopIsAnnounced ==
    \A rid \in DOMAIN games :
        (~crashed /\ StoppedOnDisconnect(rid)) =>
            /\ games[rid].Status = "finished"
            /\ \A p \in Range(games[rid].Players) :
                  Connected(games[rid], p) =>
                      \E i \in 1..Len(inbox[games[rid].Connections[p]]) :
                          LET f == inbox[games[rid].Connections[p]][i]
                          IN f.type = "GAME_OVER" /\ f.payload.reason = "opponent_disconnected"

\* C33: under fair scheduling of the round scheduler, the timers and the
\* readers' disconnect handling, a game that is in_progress eventually has
\* status completed with every registered connection closed (unless the
\* process has crashed), whether all rounds are played or a player leaves.
C33_EventuallyCompleted ==
    (RoomA \in DOMAIN games /\ games[RoomA].Status = "in_progress")
       ~> (\/ crashed
           \/ /\ RoomA \in DOMAIN games
              /\ games[RoomA].Status = "completed"
              /\ \A c \in ConnsOf(games[RoomA]) : ~conns[c].open)

\* the position of a status in the order waiting_for_players, in_progress,
\* finished, completed
StatusOrder == <<"waiting_for_players", "in_progress", "finished", "completed">>
StatusRank(status) == CHOOSE i \in 1..Len(StatusOrder) : StatusOrder[i] = status

\* C34: no step of a session, a reader, a timer or the scheduler moves a
\* game's status to an earlier one, and in_progress is entered only from
\* waiting_for_players.
C34_StatusMovesForward ==
    [][\A rid \in DOMAIN games :
          /\ games'[rid].Status \in Range(StatusOrder)
          /\ StatusRank(games'[rid].Status) >= StatusRank(games[rid].Status)
          /\ (games'[rid].Status = "in_progress" /\ games[rid].Status # "in_progress") =>
                games[rid].Status = "waiting_for_players"]_vars
\* a completed game that was finished by a disconnect before its scheduler
\* marked it finished: the player who stayed has both GAME_OVER frames
C34_Witness ==
    /\ RoomA \in DOMAIN games
    /\ games[RoomA].Status = "completed"
    /\ \E c \in DOMAIN conns :
          /\ CountType(inbox[c], "GAME_OVER") = 2
          /\ conns[c].reader = "done"

\* round r of game rid has been reset by the scheduler and is not yet over
RoundUnderWay(rid, r) ==
    /\ rid \in DOMAIN sched
    /\ sched[rid].round = r
    /\ sched[rid].pc \in {"round_start", "wait", "tick_lock", "round_end", "round_result"}
\* the scheduler has latched round r, recorded its result and broadcast it
RoundOver(rid, r) ==
    /\ rid \in DOMAIN sched
    /\ sched[rid].round = r + 1 /\ sched[rid].pc = "loop"
    /\ games[rid].roundFinished
    /\ Len(games[rid].Results) = r /\ games[rid].Results[r].Round = r
    /\ \A c \in ConnsOf(games[rid]) :
          Deliverable(c) =>
              \E i \in 1..Len(inbox[c]) :
                  inbox[c][i].type = "ROUND_RESULT" /\ inbox[c][i].payload.round = r

\* C35: under fair scheduling, every round whose state has been reset ends:
\* the scheduler latches round_finished, appends the round's result and
\* broadcasts ROUND_RESULT, whatever the clients send and whenever they leave.
C35_RoundEnds ==
    (\E r \in 1..MaxRounds : RoundUnderWay(RoomA, r))
        ~> (\E r \in 1..MaxRounds : RoundOver(RoomA, r))
\* round 1 ended by the deadline after a wrong click and a departure
C35_Witness ==
    /\ RoomA \in DOMAIN games
    /\ RoundOver(RoomA, 1)
    /\ games[RoomA].Results[1].Winner = "timeout"
    /\ games[RoomA].wrongAnswers # {}
    /\ games[RoomA].Status = "finished"

\* C36: within a game, round_answered and round_finished only go from false to
\* true; a step that takes either of them from true to false is the scheduler's
\* reset at the start of a round, never a CLICK, a disconnect or the deadline.
C36_LatchesMonotonic ==
    [][(RoomA \in DOMAIN games /\ RoomA \in DOMAIN games'
        /\ (\/ games[RoomA].roundAnswered /\ ~games'[RoomA].roundAnswered
            \/ games[RoomA].roundFinished /\ ~games'[RoomA].roundFinished))
       => \E p \in GamePrompts : RoundReset(RoomA, p[1], p[2])]_vars
\* round 1 was answered and latched, the reset of round 2 cleared both flags
\* and the deadline has latched round 2
C36_Witness ==
    /\ RoomA \in DOMAIN games
    /\ sched[RoomA].round = 2 /\ sched[RoomA].pc = "round_end"
    /\ ~games[RoomA].roundAnswered /\ games[RoomA].roundFinished
    /\ Len(games[RoomA].Results) = 1
    /\ games[RoomA].Results[1].Winner \in {Player1, Player2}

\* C37: a player whose registered connection is live (open, with its reader
\* running) is never flagged disconnected.
C37_LivePlayerNotFlagged ==
    \A rid \in DOMAIN games :
        \A p \in DOMAIN games[rid].Connections :
            Connected(games[rid], p) => ~games[rid].disconnected[p]

\* C38: in the state a game enters in_progress, each of its two players has a
\* registered connection that is open with its reader running, and neither
\* player is flagged disconnected.
C38_StartsWithBothLive ==
    [][\A rid \in DOMAIN games :
          (/\ rid \in DOMAIN games'
           /\ games[rid].Status # "in_progress"
           /\ games'[rid].Status = "in_progress") =>
              \A p \in Range(games'[rid].Players) :
                  /\ p \in DOMAIN games'[rid].Connections
                  /\ conns'[games'[rid].Connections[p]].open
                  /\ conns'[games'[rid].Connections[p]].reader = "read"
                  /\ ~games'[rid].disconnected[p]]_vars

\* C39: writes to one connection never overlap: while the reader's PONG write
\* to a connection is in progress, no other step writes a frame to that
\* connection.
C39_WritesSerialized ==
    [][\A c \in DOMAIN conns :
          (conns[c].reader = "pong" /\ Len(inbox'[c]) > Len(inbox[c]))
             => ReaderPong(c)]_vars

\* ------------------------------------------------------------------------
\* Properties of the lock discipline
\* ------------------------------------------------------------------------
\* no task calls Lock or RLock on a mutex it already holds
NoNestedAcquire ==
    \A t \in DOMAIN task :
        (~TaskDone(t) /\ NextOp(t).op \in {"Lock", "RLock"}) => ~Holds(t, NextOp(t).lock)
\* no task holds, or waits for, a game's lock and the matchmaking lock together
NeverGameAndMatchmaking ==
    \A t \in DOMAIN task :
        ~((Holds(t, "game.mu") \/ WaitsFor(t, "game.mu"))
          /\ (Holds(t, "mu") \/ WaitsFor(t, "mu")))
\* a task that has returned holds no lock
AllReleased ==
    \A t \in DOMAIN task : TaskDone(t) => \A l \in Locks : ~Holds(t, l)

\* C40: the lock discipline is deadlock-free: no task acquires a lock it
\* holds, no task has a game lock and the matchmaking lock together, a task
\* that returns has released every lock, and under fair scheduling every task
\* waiting for a lock gets it.
C40_LockDiscipline ==
    /\ []NoNestedAcquire
    /\ []NeverGameAndMatchmaking
    /\ []AllReleased
    /\ \A t \in 1..MaxTasks :
          (t \in DOMAIN task /\ task[t].waiting) ~> (t \in DOMAIN task /\ ~task[t].waiting)
\* a reader goroutine waits for game.mu while runGame holds it
C40_Witness ==
    \E t, u \in DOMAIN task :
        /\ task[t].prog.fn = "handlePlayerMessages" /\ WaitsFor(t, "game.mu")
        /\ task[u].prog.fn = "runGame" /\ held["game.mu"].w = u

====
